---- MODULE Spec2Model ----
(***************************************************************************)
(* Model of horgh/videostreamer: the remuxing library (videostreamer.c,    *)
(* videostreamer.h) and its example driver (cmd/remux_example).            *)
(*                                                                         *)
(* The libav* container library is the external collaborator.  Its calls   *)
(* are recorded in the log `calls`; each of its results is a choice of the *)
(* environment.                                                            *)
(***************************************************************************)
EXTENDS Integers, Sequences, FiniteSets, TLC

VARIABLES
  pc,          \* position of the caller (main of remux_example.c, or a library client)
  err,         \* the failing phase main has printed ("none" while there is none)
  streams,     \* codec kinds of the input container's sub-streams, in declaration order
  in_tb,       \* time base of the input streams  <<num, den>>
  out_tb,      \* time base the muxer gives the output stream <<num, den>>
  input,       \* struct VSInput  and the state of its allocation
  output,      \* struct VSOutput and the state of its allocation
  pkt,         \* the caller's AVPacket
  max_frames,  \* main: atoll(argv[3])
  i,           \* main: count of packets written
  delivered,   \* units the source has delivered so far
  calls,       \* log of the calls made to the container library
  committed,   \* every packet av_write_frame accepted, in order: its raw and its written DTS
  lastw,       \* the last call of vs_write_packet: its inputs and its result
  crashed      \* the process has been ended by a trap

vars == <<pc, err, streams, in_tb, out_tb, input, output, pkt, max_frames, i,
          delivered, calls, committed, lastw, crashed>>

---------------------------------------------------------------------------
(* Bounds of the model *)

\* Width of a timestamp in the model; stands for the 64 bits of int64_t.
TsBits == 24
\* Units a source delivers before end of stream.
MaxUnits == 3
\* Largest frame budget given on the command line.
MaxBudget == 2
\* Packets a library client hands to vs_write_packet.
MaxWrites == 2

INT64_MAX == 2^(TsBits - 1) - 1
INT64_MIN == -(2^(TsBits - 1))
AV_NOPTS_VALUE == INT64_MIN

FFMAX(a, b) == IF a > b THEN a ELSE b

---------------------------------------------------------------------------
(* av_rescale_q_rnd(a, bq, cq, AV_ROUND_NEAR_INF|AV_ROUND_PASS_MINMAX)      *)

\* (mutant) the division truncates instead of rounding to nearest
RoundTruncates(a, b, c) == (a * b) \div c

\* AV_ROUND_NEAR_INF on a non-negative value: (a*b + c/2) / c
RoundNearInf(a, b, c) == (a * b + (c \div 2)) \div c

\* av_rescale_rnd with AV_ROUND_NEAR_INF: a negative value is rescaled as its
\* magnitude and negated, so ties go away from zero; a result that does not
\* fit is reported as INT64_MIN.
av_rescale_near_inf(a, b, c) ==
  LET r == IF a < 0 THEN -RoundNearInf(-a, b, c) ELSE RoundNearInf(a, b, c)
  IN IF r > INT64_MAX \/ r < INT64_MIN THEN INT64_MIN ELSE r

\* AV_ROUND_PASS_MINMAX: INT64_MIN and INT64_MAX are passed through unchanged.
av_rescale_q_rnd(a, bq, cq) ==
  IF a = INT64_MIN \/ a = INT64_MAX
  THEN a
  ELSE av_rescale_near_inf(a, bq[1] * cq[2], cq[1] * bq[2])

\* av_rescale_q(a, bq, cq) is av_rescale_q_rnd(a, bq, cq, AV_ROUND_NEAR_INF)
av_rescale_q(a, bq, cq) == av_rescale_near_inf(a, bq[1] * cq[2], cq[1] * bq[2])

---------------------------------------------------------------------------
(* Inputs of the model *)

\* Sub-stream layouts of the input container.
Layouts == { <<"audio">>, <<"video">>, <<"audio", "video">>,
             <<"audio", "video", "video">> }

\* <<input time base, output time base>>
TimeBases == { << <<1, 90000>>, <<1, 1000>> >>,
               << <<1, 10000>>, <<1, 10000>> >>,
               << <<1, 1000>>,  <<1, 500>> >> }

\* The same with a destination time base finer than the source's, for the
\* files the example driver remuxes.
DriverTimeBases == TimeBases \cup { << <<1, 500>>, <<1, 1000>> >> }

\* Timestamps of the units the example driver's source delivers (pts = dts).
DriverTs == {AV_NOPTS_VALUE, 45000, 90000, 135000}

\* Timestamps of the packets a library client hands to vs_write_packet.
LibDts == {AV_NOPTS_VALUE, -45, 45, 45000, 90000, INT64_MAX}
LibPts == {AV_NOPTS_VALUE, 45, 45000, 90000}

\* AVPacket after memset(pkt, 0, sizeof(AVPacket))
ZeroPkt == [stream_index |-> 0, pts |-> 0, dts |-> 0, duration |-> 0,
            pos |-> 0, held |-> FALSE]

\* AVPacket after av_packet_unref: the buffer is released, the fields are reset
UnrefPkt == [stream_index |-> 0, pts |-> AV_NOPTS_VALUE, dts |-> AV_NOPTS_VALUE,
             duration |-> 0, pos |-> -1, held |-> FALSE]

Unit(idx, pts, dts) == [stream_index |-> idx, pts |-> pts, dts |-> dts,
                        duration |-> 3750, pos |-> 0, held |-> TRUE]

\* calloc(1, sizeof(struct VSInput)) / no session
NullInput == [state |-> "null", format_ctx |-> FALSE, video_stream_index |-> 0]

\* calloc(1, sizeof(struct VSOutput)) / no session
NullOutput == [state |-> "null", format_ctx |-> FALSE, pb |-> FALSE,
               header |-> FALSE, last_dts |-> 0]

\* No call of vs_write_packet yet
NoWrite == [res |-> 0, fix |-> FALSE, raw_index |-> 0, raw_pts |-> 0,
            raw_dts |-> 0, prev |-> 0, pts |-> 0, dts |-> 0]

---------------------------------------------------------------------------
(* vs_open_input *)

\* The loop of vs_open_input: the first index k >= from whose stream is video,
\* -1 if there is none.  Indices are those of C (0-based).
RECURSIVE FirstVideoFrom(_, _)
FirstVideoFrom(ss, k) ==
  IF k >= Len(ss) THEN -1
  ELSE IF ss[k + 1] # "video" THEN FirstVideoFrom(ss, k + 1)
  ELSE k

\* (mutant) the scan does not stop at the first video stream
RECURSIVE LastVideoFrom(_, _)
LastVideoFrom(ss, k) ==
  IF k >= Len(ss) THEN -1
  ELSE IF LastVideoFrom(ss, k + 1) # -1 THEN LastVideoFrom(ss, k + 1)
  ELSE IF ss[k + 1] = "video" THEN k ELSE -1

LastVideo(ss) == LastVideoFrom(ss, 0)

FirstVideo(ss) == FirstVideoFrom(ss, 0)

InputStages == {"calloc", "format", "open", "stream_info", "ok"}

\* vs_destroy_input on the session vs_open_input is building
DestroyInputCalls(in) ==
  IF in.format_ctx THEN <<"avformat_close_input">> ELSE <<>>

\* stage: the first step of vs_open_input the library fails ("ok": none)
vs_open_input(stage) ==
  LET opened == [NullInput EXCEPT !.state = "open", !.format_ctx = TRUE]
      found  == [opened EXCEPT !.video_stream_index = FirstVideo(streams)]
  IN
  /\ stage \in InputStages
  /\ CASE stage \in {"calloc", "format"} ->
            /\ input' = NullInput
            /\ calls' = calls
       [] stage = "open" ->
            /\ input' = NullInput
            /\ calls' = Append(calls, "avformat_open_input")
       [] stage = "stream_info" ->
            /\ input' = NullInput
            /\ calls' = calls \o <<"avformat_open_input">> \o DestroyInputCalls(opened)
       [] stage = "ok" ->
            IF found.video_stream_index = -1
            THEN /\ input' = NullInput
                 /\ calls' = calls \o <<"avformat_open_input">>
                                   \o DestroyInputCalls(found)
            ELSE /\ input' = found
                 /\ calls' = Append(calls, "avformat_open_input")

\* vs_destroy_input(input) on the caller's pointer
vs_destroy_input ==
  IF input.state = "null"
  THEN UNCHANGED <<input, calls>>
  ELSE /\ calls' = calls \o DestroyInputCalls(input)
       /\ input' = [input EXCEPT !.state = "freed", !.format_ctx = FALSE]

---------------------------------------------------------------------------
(* vs_open_output, vs_destroy_output *)

OutputStages == {"calloc", "format", "alloc", "stream", "codecpar", "avio",
                 "movflags", "flush_packets", "header", "opts", "ok"}

\* (mutant) the trailer is not written
DestroyWithoutTrailer(o) ==
  IF o.format_ctx THEN <<"avio_closep", "avformat_free_context">> ELSE <<>>

\* vs_destroy_output(o): what it asks of the library
DestroyOutputCalls(o) ==
  IF o.format_ctx
  THEN <<"av_write_trailer", "avio_closep", "avformat_free_context">>
  ELSE <<>>

\* The library calls of vs_open_output up to the stage that fails, and the
\* session as it stands there.
OpenOutputSteps(stage) ==
  LET ctx  == [NullOutput EXCEPT !.state = "open", !.format_ctx = TRUE]
      file == [ctx EXCEPT !.pb = TRUE]
      head == [file EXCEPT !.header = TRUE]
  IN CASE stage \in {"calloc", "format", "alloc"} ->
            [calls |-> <<>>, out |-> [NullOutput EXCEPT !.state = "open"]]
       [] stage \in {"stream", "codecpar"} ->
            [calls |-> <<>>, out |-> ctx]
       [] stage = "avio" ->
            [calls |-> <<"avio_open">>, out |-> ctx]
       [] stage \in {"movflags", "flush_packets"} ->
            [calls |-> <<"avio_open">>, out |-> file]
       [] stage = "header" ->
            [calls |-> <<"avio_open", "avformat_write_header">>, out |-> file]
       [] stage \in {"opts", "ok"} ->
            [calls |-> <<"avio_open", "avformat_write_header">>, out |-> head]

\* stage: the first step of vs_open_output that fails ("ok": none)
vs_open_output(stage) ==
  LET st == OpenOutputSteps(stage)
  IN
  /\ stage \in OutputStages
  /\ input.state = "open"
  /\ IF stage = "ok"
     THEN /\ output' = [st.out EXCEPT !.last_dts = AV_NOPTS_VALUE]
          /\ calls' = calls \o st.calls
     ELSE /\ output' = NullOutput
          /\ calls' = calls \o st.calls \o
                      (IF stage = "calloc" THEN <<>> ELSE DestroyOutputCalls(st.out))

\* What a read of the freed struct VSOutput can lead to in a second
\* vs_destroy_output on the same pointer.
FreedOutcomes == {"trailer", "nothing", "trap"}

\* vs_destroy_output(output) on the caller's pointer
vs_destroy_output(uaf) ==
  CASE output.state = "null" ->
         UNCHANGED <<output, calls, crashed>>
    [] output.state = "open" ->
         /\ calls' = calls \o DestroyOutputCalls(output)
         /\ output' = [output EXCEPT !.state = "freed"]
         /\ UNCHANGED crashed
    [] output.state = "freed" ->
         /\ uaf \in FreedOutcomes
         /\ calls' = IF uaf = "trailer"
                     THEN calls \o DestroyOutputCalls(output)
                     ELSE calls
         /\ crashed' = (uaf = "trap")
         /\ UNCHANGED output

---------------------------------------------------------------------------
(* vs_read_packet *)

\* av_read_frame: the units the source can deliver next.  A source delivers at
\* most MaxUnits units; after them, and at any time before, the read can fail
\* (end of stream, transport failure).
SourceUnits ==
  IF delivered < MaxUnits
  THEN { Unit(k, t, t) : k \in 0 .. (Len(streams) - 1), t \in DriverTs }
  ELSE {}

\* fail: av_read_frame fails.  u: the unit it delivers otherwise.
\* res: the value vs_read_packet returns.
vs_read_packet(fail, u, res) ==
  /\ input.state = "open"
  /\ calls' = Append(calls, "av_read_frame")
  /\ IF fail
     THEN /\ res = -1
          /\ pkt' = ZeroPkt
          /\ UNCHANGED delivered
     ELSE /\ u \in SourceUnits
          /\ delivered' = delivered + 1
          /\ IF u.stream_index # input.video_stream_index
             THEN /\ res = 0
                  /\ pkt' = UnrefPkt
             ELSE /\ res = 1
                  /\ pkt' = u

---------------------------------------------------------------------------
(* vs_write_packet *)

\* lines 379-388: the decision to rewrite the DTS
fix_dts(p, last_dts) ==
  \/ /\ p.dts # AV_NOPTS_VALUE
     /\ last_dts # AV_NOPTS_VALUE
     /\ p.dts <= last_dts
  \/ /\ p.dts = AV_NOPTS_VALUE
     /\ last_dts # AV_NOPTS_VALUE

\* int64_t const next_dts = output->last_dts+1.  At INT64_MAX the addition
\* overflows: the build wraps around, or traps.
Overflows(last_dts) == last_dts = INT64_MAX

NextDts(last_dts) ==
  IF Overflows(last_dts) THEN INT64_MIN ELSE last_dts + 1

\* lines 403-412: the rewrite of pts and dts
RepairPts(p, next_dts) ==
  LET pts1 == IF p.pts # AV_NOPTS_VALUE /\ p.pts >= p.dts
              THEN FFMAX(p.pts, next_dts)
              ELSE p.pts
  IN IF pts1 = AV_NOPTS_VALUE THEN next_dts ELSE pts1

Repair(p, next_dts) ==
  [p EXCEPT !.pts = RepairPts(p, next_dts), !.dts = next_dts]

\* lines 423-428
RescalePts(p, itb, otb) ==
  IF p.pts = AV_NOPTS_VALUE THEN 0 ELSE av_rescale_q_rnd(p.pts, itb, otb)

\* (mutant) an unset dts is handed on unset
RescaleDtsKeepsUnset(p, itb, otb) ==
  IF p.dts = AV_NOPTS_VALUE
  THEN AV_NOPTS_VALUE
  ELSE av_rescale_q_rnd(p.dts, itb, otb)

\* lines 430-435
RescaleDts(p, itb, otb) ==
  IF p.dts = AV_NOPTS_VALUE THEN 0 ELSE av_rescale_q_rnd(p.dts, itb, otb)

\* lines 423-439
Rescale(p, itb, otb) ==
  [p EXCEPT !.pts = RescalePts(p, itb, otb),
            !.dts = RescaleDts(p, itb, otb),
            !.duration = av_rescale_q(p.duration, itb, otb),
            !.pos = -1]

\* lines 346-439: the packet handed to av_write_frame
Corrected(p, last_dts, itb, otb) ==
  LET q == [p EXCEPT !.stream_index = 0]
  IN Rescale(IF fix_dts(q, last_dts) THEN Repair(q, NextDts(last_dts)) ELSE q,
             itb, otb)

\* line 448: the value of last_dts once vs_write_packet has returned
\* (q: the corrected packet, ok: av_write_frame accepted it)
LastDtsAfterWrite(old, q, ok) == q.dts

\* p: the caller's packet.  ok: av_write_frame accepts the packet.
\* trap: an overflowing addition traps.  res: the value vs_write_packet
\* returns (0 stands for a call that does not return).
vs_write_packet(p, ok, trap, res) ==
  /\ input.state = "open"
  /\ output.state = "open"
  /\ IF fix_dts(p, output.last_dts) /\ Overflows(output.last_dts) /\ trap
     THEN /\ crashed' = TRUE
          /\ res = 0
          /\ UNCHANGED <<output, pkt, calls, committed, lastw>>
     ELSE LET q == Corrected(p, output.last_dts, in_tb, out_tb)
          IN /\ pkt' = q
             /\ output' = [output EXCEPT
                             !.last_dts = LastDtsAfterWrite(output.last_dts, q, ok)]
             /\ calls' = Append(calls, "av_write_frame")
             /\ committed' = IF ok
                             THEN Append(committed, [raw |-> p.dts, dts |-> q.dts])
                             ELSE committed
             /\ res = (IF ok THEN 1 ELSE -1)
             /\ lastw' = [res |-> res, fix |-> fix_dts(p, output.last_dts),
                          raw_index |-> p.stream_index,
                          raw_pts |-> p.pts, raw_dts |-> p.dts,
                          prev |-> output.last_dts, pts |-> q.pts, dts |-> q.dts]
             /\ UNCHANGED crashed

---------------------------------------------------------------------------
(* main of cmd/remux_example/remux_example.c *)

Init ==
  /\ pc = "open_input"
  /\ err = "none"
  /\ streams \in Layouts
  /\ \E tb \in DriverTimeBases : in_tb = tb[1] /\ out_tb = tb[2]
  /\ input = NullInput
  /\ output = NullOutput
  /\ pkt = ZeroPkt
  /\ max_frames \in 0 .. MaxBudget
  /\ i = 0
  /\ delivered = 0
  /\ calls = <<>>
  /\ committed = <<>>
  /\ lastw = NoWrite
  /\ crashed = FALSE

Config == <<streams, in_tb, out_tb, max_frames>>

\* lines 26-31
MainOpenInput ==
  /\ pc = "open_input"
  /\ \E stage \in InputStages : vs_open_input(stage)
  /\ IF input'.state = "null"
     THEN pc' = "done" /\ err' = "open_input"
     ELSE pc' = "open_output" /\ err' = err
  /\ UNCHANGED <<Config, output, pkt, i, delivered, committed, lastw, crashed>>

\* (mutant) a failed vs_open_output returns without vs_destroy_input
MainOpenOutputLeaksInput ==
  /\ pc = "open_output"
  /\ \E stage \in OutputStages : vs_open_output(stage)
  /\ IF output'.state = "null"
     THEN pc' = "done" /\ err' = "open_output"
     ELSE pc' = "read" /\ err' = err
  /\ UNCHANGED <<Config, input, pkt, i, delivered, committed, lastw, crashed>>

\* lines 33-36
MainOpenOutput ==
  /\ pc = "open_output"
  /\ \E stage \in OutputStages : vs_open_output(stage)
  /\ IF output'.state = "null"
     THEN pc' = "destroy_input" /\ err' = "open_output"
     ELSE pc' = "read" /\ err' = err
  /\ UNCHANGED <<Config, input, pkt, i, delivered, committed, lastw, crashed>>

\* lines 44-57
MainRead ==
  /\ pc = "read"
  /\ \E fail \in BOOLEAN, u \in SourceUnits \cup {ZeroPkt}, res \in {-1, 0, 1} :
       /\ vs_read_packet(fail, u, res)
       /\ CASE res = -1 -> pc' = "destroy_input" /\ err' = "read"
            [] res = 0  -> pc' = "read" /\ err' = err
            [] res = 1  -> pc' = "write" /\ err' = err
  /\ UNCHANGED <<Config, input, output, i, committed, lastw, crashed>>

\* (mutant) a failed write is ignored and the loop goes on
MainWriteIgnoresError ==
  /\ pc = "write"
  /\ \E ok \in BOOLEAN, trap \in BOOLEAN, res \in {-1, 0, 1} :
       /\ vs_write_packet(pkt, ok, trap, res)
       /\ pc' = IF res = 0 THEN "crashed" ELSE "unref"
       /\ err' = err
  /\ UNCHANGED <<Config, input, i, delivered>>

\* lines 59-62
MainWrite ==
  /\ pc = "write"
  /\ \E ok \in BOOLEAN, trap \in BOOLEAN, res \in {-1, 0, 1} :
       /\ vs_write_packet(pkt, ok, trap, res)
       /\ CASE res = -1 -> pc' = "destroy_input" /\ err' = "write"
            [] res = 0  -> pc' = "crashed" /\ err' = err
            [] res = 1  -> pc' = "unref" /\ err' = err
  /\ UNCHANGED <<Config, input, i, delivered>>

\* (mutant) the budget is compared before the count is incremented
MainUnrefOffByOne ==
  /\ pc = "unref"
  /\ pkt' = UnrefPkt
  /\ IF err = "write"
     THEN pc' = "done" /\ i' = i
     ELSE /\ i' = i + 1
          /\ pc' = IF i = max_frames THEN "destroy_input" ELSE "read"
  /\ UNCHANGED <<Config, err, input, output, delivered, calls, committed, lastw,
                 crashed>>

\* (mutant) main returns 0 from inside the loop when the budget is reached
MainUnrefReturnsAtBudget ==
  /\ pc = "unref"
  /\ pkt' = UnrefPkt
  /\ IF err = "write"
     THEN pc' = "done" /\ i' = i
     ELSE /\ i' = i + 1
          /\ pc' = IF i + 1 = max_frames THEN "done" ELSE "read"
  /\ UNCHANGED <<Config, err, input, output, delivered, calls, committed, lastw,
                 crashed>>

\* (mutant) the loop ends once the count has reached the budget or passed it
MainUnrefStopsAtZero ==
  /\ pc = "unref"
  /\ pkt' = UnrefPkt
  /\ IF err = "write"
     THEN pc' = "done" /\ i' = i
     ELSE /\ i' = i + 1
          /\ pc' = IF i + 1 >= max_frames THEN "destroy_input" ELSE "read"
  /\ UNCHANGED <<Config, err, input, output, delivered, calls, committed, lastw,
                 crashed>>

\* (mutant) the packet of a failed write is not unreferenced
MainUnrefLeaksOnError ==
  /\ pc = "unref"
  /\ IF err = "write"
     THEN pc' = "done" /\ i' = i /\ pkt' = pkt
     ELSE /\ i' = i + 1
          /\ pkt' = UnrefPkt
          /\ pc' = IF i + 1 = max_frames THEN "destroy_input" ELSE "read"
  /\ UNCHANGED <<Config, err, input, output, delivered, calls, committed, lastw,
                 crashed>>

\* lines 64, 68-73: av_packet_unref(&pkt), and on the success path the count
MainUnref ==
  /\ pc = "unref"
  /\ pkt' = UnrefPkt
  /\ IF err = "write"
     THEN pc' = "done" /\ i' = i
     ELSE /\ i' = i + 1
          /\ pc' = IF i + 1 = max_frames THEN "destroy_input" ELSE "read"
  /\ UNCHANGED <<Config, err, input, output, delivered, calls, committed, lastw,
                 crashed>>

\* (mutant) the source session is not torn down
MainForgetsInput ==
  /\ pc = "destroy_input"
  /\ pc' = IF err = "open_output" THEN "done" ELSE "destroy_output"
  /\ UNCHANGED <<Config, err, input, output, pkt, i, delivered, calls, committed,
                 lastw, crashed>>

\* lines 37, 50, 62, 76
MainDestroyInput ==
  /\ pc = "destroy_input"
  /\ vs_destroy_input
  /\ pc' = IF err = "open_output" THEN "done" ELSE "destroy_output"
  /\ UNCHANGED <<Config, err, output, pkt, i, delivered, committed, lastw, crashed>>

\* (mutant) an error path returns without closing the destination
MainLeaksOutputOnError ==
  /\ pc = "destroy_output"
  /\ IF err = "none"
     THEN vs_destroy_output("nothing")
     ELSE UNCHANGED <<output, calls, crashed>>
  /\ pc' = IF err = "write" THEN "unref" ELSE "done"
  /\ UNCHANGED <<Config, err, input, pkt, i, delivered, committed, lastw>>

\* lines 51, 63, 77
MainDestroyOutput ==
  /\ pc = "destroy_output"
  /\ vs_destroy_output("nothing")
  /\ pc' = IF err = "write" THEN "unref" ELSE "done"
  /\ UNCHANGED <<Config, err, input, pkt, i, delivered, committed, lastw>>

Next ==
  \/ MainOpenInput
  \/ MainOpenOutput
  \/ MainRead
  \/ MainWrite
  \/ MainUnref
  \/ MainDestroyInput
  \/ MainDestroyOutput

Spec == Init /\ [][Next]_vars

\* The process runs main until it returns.
SpecFair == Spec /\ WF_vars(Next)

\* The value main returns
ExitCode == IF err = "none" THEN 0 ELSE 1

---------------------------------------------------------------------------
(* A client of the library: it opens both sessions, hands packets of the   *)
(* selected stream to vs_write_packet, and closes the sessions; it may     *)
(* call vs_destroy_output a second time on the same pointer.               *)

InitLib ==
  /\ pc = "lib_open_input"
  /\ err = "none"
  /\ streams = <<"audio", "video">>
  /\ \E tb \in TimeBases : in_tb = tb[1] /\ out_tb = tb[2]
  /\ input = NullInput
  /\ output = NullOutput
  /\ pkt = ZeroPkt
  /\ max_frames = 0
  /\ i = 0
  /\ delivered = 0
  /\ calls = <<>>
  /\ committed = <<>>
  /\ lastw = NoWrite
  /\ crashed = FALSE

LibOpenInput ==
  /\ pc = "lib_open_input"
  /\ \E stage \in InputStages : vs_open_input(stage)
  /\ pc' = IF input'.state = "null" THEN "lib_done" ELSE "lib_open_output"
  /\ UNCHANGED <<Config, err, output, pkt, i, delivered, committed, lastw, crashed>>

LibOpenOutput ==
  /\ pc = "lib_open_output"
  /\ \E stage \in OutputStages : vs_open_output(stage)
  /\ pc' = IF output'.state = "null" THEN "lib_close" ELSE "lib_write"
  /\ UNCHANGED <<Config, err, input, pkt, i, delivered, committed, lastw, crashed>>

\* The client hands over a packet of the selected stream.
LibWrite ==
  /\ pc = "lib_write"
  /\ delivered < MaxWrites
  /\ \E pts \in LibPts, dts \in LibDts, ok \in BOOLEAN, trap \in BOOLEAN,
        res \in {-1, 0, 1} :
       /\ vs_write_packet(Unit(input.video_stream_index, pts, dts), ok, trap, res)
       /\ pc' = IF res = 0 THEN "crashed" ELSE "lib_write"
  /\ delivered' = delivered + 1
  /\ UNCHANGED <<Config, err, input, i>>

\* The client stops writing.
LibStop ==
  /\ pc = "lib_write"
  /\ pc' = "lib_close"
  /\ UNCHANGED <<Config, err, input, output, pkt, i, delivered, calls, committed,
                 lastw, crashed>>

\* vs_destroy_output(output); i counts the calls
LibDestroyOutput ==
  /\ pc = "lib_close"
  /\ i < 2
  /\ \E uaf \in FreedOutcomes : vs_destroy_output(uaf)
  /\ i' = i + 1
  /\ pc' = IF crashed' THEN "crashed" ELSE "lib_close"
  /\ UNCHANGED <<Config, err, input, pkt, delivered, committed, lastw>>

LibDestroyInput ==
  /\ pc = "lib_close"
  /\ input.state = "open"
  /\ vs_destroy_input
  /\ UNCHANGED <<Config, pc, err, output, pkt, i, delivered, committed, lastw,
                 crashed>>

NextLib ==
  \/ LibOpenInput
  \/ LibOpenOutput
  \/ LibWrite
  \/ LibStop
  \/ LibDestroyOutput
  \/ LibDestroyInput

SpecLib == InitLib /\ [][NextLib]_vars

---------------------------------------------------------------------------
(* Properties *)

\* How often the library call `name` occurs in the log
CountCalls(name) == Cardinality({k \in 1 .. Len(calls) : calls[k] = name})

\* The destination-side calls of the log, in order
DestCalls ==
  SelectSeq(calls, LAMBDA c : c \in {"avformat_write_header", "av_write_frame",
                                     "av_write_trailer"})

\* C1 (monotonicity): the DTS values of the packets committed to one output,
\* in the destination time base, are strictly increasing, whatever the raw
\* DTS sequence and the two time bases.
C1_Monotonic ==
  \A k \in 1 .. (Len(committed) - 1) : committed[k].dts < committed[k + 1].dts

\* C2 (PTS >= DTS): every packet vs_write_packet commits has a PTS greater
\* than or equal to its DTS.
C2_PtsNotBelowDts ==
  lastw.res = 1 => lastw.pts >= lastw.dts

\* C3: when av_write_frame rejects the packet and vs_write_packet returns -1,
\* last_dts has the value it had before the call.
C3_FailedWriteKeepsLastDts ==
  lastw.res = -1 /\ output.state = "open" => output.last_dts = lastw.prev

\* C4 (as claimed): two calls of vs_destroy_output on one session write the
\* trailer at most once, and the second call does not crash.
C4_IdempotentClose ==
  i = 2 => CountCalls("av_write_trailer") <= 1 /\ ~crashed

\* C4 (amended): one call of vs_destroy_output on an open session writes the
\* trailer exactly once and releases the session without a crash; a call
\* with no session (NULL) asks nothing of the library.
C4_SingleClose ==
  /\ i = 1 /\ output.state = "freed" =>
       CountCalls("av_write_trailer") = 1 /\ ~crashed
  /\ i >= 1 /\ output.state = "null" =>
       ~crashed /\ CountCalls("av_write_trailer") <= 1

C4_Witness ==
  /\ i = 1
  /\ output.state = "freed"
  /\ Len(committed) = 1
  /\ CountCalls("av_write_trailer") = 1

\* C5 (budget enforcement): with a frame budget N >= 1 the run never commits
\* more than N units; a run that ends without an error has committed exactly
\* N units and has written the trailer; a read that returns 0 does not count:
\* the count i is the number of committed units.
C5_BudgetEnforced ==
  max_frames >= 1 =>
    /\ Len(committed) <= max_frames
    /\ i = IF pc = "unref" /\ err = "none"
           THEN Len(committed) - 1 ELSE Len(committed)
    /\ pc = "done" /\ err = "none" =>
         /\ Len(committed) = max_frames
         /\ CountCalls("av_write_trailer") = 1
         /\ calls[Len(calls) - 2] = "av_write_trailer"

\* A budget of 2 met by a source that delivered 3 units, one of another stream
C5_Witness ==
  /\ pc = "done"
  /\ err = "none"
  /\ max_frames = 2
  /\ Len(committed) = 2
  /\ delivered = 3

\* C6 (stream filtering): an open source session has selected the video
\* sub-stream of lowest index, and a source without a video sub-stream is
\* never opened; the selection does not change; only units of the selected
\* sub-stream reach vs_write_packet, a read of any other unit returns 0 and
\* leaves no packet behind.
C6_StreamFiltering ==
  /\ input.state # "null" =>
       /\ input.video_stream_index \in 0 .. (Len(streams) - 1)
       /\ streams[input.video_stream_index + 1] = "video"
       /\ \A k \in 0 .. (input.video_stream_index - 1) : streams[k + 1] # "video"
  /\ (\A k \in 1 .. Len(streams) : streams[k] # "video") => input.state = "null"
  /\ pc = "write" => pkt.held /\ pkt.stream_index = input.video_stream_index
  /\ lastw.res # 0 => lastw.raw_index = input.video_stream_index
  /\ pc = "read" => ~pkt.held
  /\ CountCalls("av_write_frame") <= delivered

\* Of three sub-streams the second is selected; one of two units read was of
\* another sub-stream and was dropped, the other was committed.
C6_Witness ==
  /\ streams = <<"audio", "video", "video">>
  /\ input.video_stream_index = 1
  /\ pc = "read"
  /\ delivered = 2
  /\ CountCalls("av_write_frame") = 1
  /\ Len(committed) = 1

\* C7 (as claimed): once both sessions are open, the destination session is
\* closed first and the source session second.
C7_DestinationClosedFirst ==
  output.state # "null" /\ input.state = "freed" => output.state = "freed"

\* C7 (amended): on every path that ends a run after both sessions were
\* opened, the source session is closed first and the destination session
\* second, and both are closed when the run ends.
C7_SourceClosedFirst ==
  /\ output.state = "freed" => input.state = "freed"
  /\ pc = "done" /\ output.state # "null" =>
       input.state = "freed" /\ output.state = "freed"

\* After a write error the source is closed and the destination is still open
C7_Witness ==
  /\ pc = "destroy_output"
  /\ err = "write"
  /\ input.state = "freed"
  /\ output.state = "open"

\* C8 (output ordering): once the destination is open, the header has been
\* written exactly once and before every unit; the trailer is written exactly
\* once, by the close, after the last unit write; and every run that opened
\* the destination ends with it closed, also after a read or write error.
C8_OutputOrdering ==
  /\ output.state # "null" =>
       /\ DestCalls[1] = "avformat_write_header"
       /\ CountCalls("avformat_write_header") = 1
       /\ CountCalls("av_write_trailer") = IF output.state = "freed" THEN 1 ELSE 0
       /\ output.state = "freed" => DestCalls[Len(DestCalls)] = "av_write_trailer"
  /\ pc = "done" /\ output.state # "null" => output.state = "freed"

\* A run that committed one unit and then ended by a write error
C8_Witness ==
  /\ pc = "done"
  /\ err = "write"
  /\ Len(committed) = 1
  /\ DestCalls = <<"avformat_write_header", "av_write_frame", "av_write_frame",
                   "av_write_trailer">>

\* C9 (last_dts tracking): last_dts is unset from a successful
\* vs_open_output until the first commit; after a successful vs_write_packet
\* it is the DTS committed for that packet; a source of 3 units of the
\* selected stream with raw DTS 45000, 90000, 135000 at 1/90000, written at
\* 1/1000 with no budget, ends with 3 commits and last_dts = 1500.
C9_LastDtsTracking ==
  /\ output.state = "open" /\ committed = <<>> =>
       output.last_dts = AV_NOPTS_VALUE
  /\ output.state = "open" /\ lastw.res = 1 => output.last_dts = lastw.dts
  /\ ( /\ pc = "done" /\ err = "read" /\ max_frames = 0
       /\ in_tb = <<1, 90000>> /\ out_tb = <<1, 1000>>
       /\ delivered = 3 /\ CountCalls("av_write_frame") = 3
       /\ lastw.res = 1 /\ lastw.raw_dts = 135000
       /\ Len(committed) >= 2
       /\ committed[1].raw = 45000 /\ committed[2].raw = 90000 )
     => /\ Len(committed) = 3
        /\ committed[1].dts = 500 /\ committed[2].dts = 1000
        /\ committed[3].dts = 1500
        /\ output.last_dts = 1500

RECURSIVE GCD(_, _)
GCD(a, b) == IF b = 0 THEN a ELSE GCD(b, a % b)

\* v ticks of time base itb, in ticks of time base otb, rounded to the nearest
\* integer, a tie away from zero
NearestTicks(v, itb, otb) ==
  LET n == itb[1] * otb[2]
      d == otb[1] * itb[2]
      g == GCD(n, d)
      m == (IF v < 0 THEN -v ELSE v) * (n \div g)
      r == (2 * m + (d \div g)) \div (2 * (d \div g))
  IN IF v < 0 THEN -r ELSE r

\* C10 (as claimed): on the standard path every set PTS or DTS value v is
\* committed as v rescaled from the source to the destination time base,
\* rounded to nearest with ties away from zero.
C10_RescaleEverySetValue ==
  lastw.res = 1 /\ ~lastw.fix =>
    /\ lastw.raw_pts # AV_NOPTS_VALUE =>
         lastw.pts = NearestTicks(lastw.raw_pts, in_tb, out_tb)
    /\ lastw.raw_dts # AV_NOPTS_VALUE =>
         lastw.dts = NearestTicks(lastw.raw_dts, in_tb, out_tb)

\* C10 (amended): the same for every set value other than INT64_MAX, which
\* AV_ROUND_PASS_MINMAX passes through unchanged; from 1/90000 to 1/1000 a
\* raw 90000 is committed as 1000 and a raw 45000 as 500.
C10_RescaleCorrect ==
  lastw.res = 1 /\ ~lastw.fix =>
    /\ lastw.raw_pts \notin {AV_NOPTS_VALUE, INT64_MAX} =>
         lastw.pts = NearestTicks(lastw.raw_pts, in_tb, out_tb)
    /\ lastw.raw_dts \notin {AV_NOPTS_VALUE, INT64_MAX} =>
         lastw.dts = NearestTicks(lastw.raw_dts, in_tb, out_tb)
    /\ lastw.raw_dts = INT64_MAX => lastw.dts = INT64_MAX
    /\ in_tb = <<1, 90000>> /\ out_tb = <<1, 1000>> =>
         /\ lastw.raw_pts = 90000 => lastw.pts = 1000
         /\ lastw.raw_pts = 45000 => lastw.pts = 500
         /\ lastw.raw_dts = 90000 => lastw.dts = 1000
         /\ lastw.raw_dts = 45000 => lastw.dts = 500
         /\ lastw.raw_dts = 45 => lastw.dts = 1
         /\ lastw.raw_dts = -45 => lastw.dts = -1

\* A first packet with PTS 90000 and DTS 45000, committed at 1000 and 500
C10_Witness ==
  /\ lastw.res = 1
  /\ ~lastw.fix
  /\ in_tb = <<1, 90000>> /\ out_tb = <<1, 1000>>
  /\ lastw.raw_pts = 90000 /\ lastw.pts = 1000
  /\ lastw.raw_dts = 45000 /\ lastw.dts = 500

\* How often `name` occurs in the log
CountIn(log, name) == Cardinality({k \in 1 .. Len(log) : log[k] = name})

\* The positions of main at which the run is being torn down or has ended
Teardown == {"destroy_input", "destroy_output", "unref", "done"}

\* C11 (errors are fatal): once vs_read_packet or vs_write_packet has returned
\* -1 the run is in teardown, reads nothing more and commits nothing more, and
\* it ends with both sessions torn down and exit code 1; the loop goes from a
\* read straight to the next read only when the read returned 0, having
\* dropped a unit of another stream.
C11_ErrorsAreFatal ==
  /\ [](lastw.res = -1 => err = "write" /\ pc \in Teardown)
  /\ [](err \in {"read", "write"} => pc \in Teardown)
  /\ [](pc = "done" /\ err \in {"read", "write"} =>
          /\ ExitCode = 1
          /\ input.state = "freed"
          /\ output.state = "freed")
  /\ [][ /\ err \in {"read", "write"} =>
            /\ err' = err
            /\ committed' = committed
            /\ CountIn(calls', "av_read_frame") = CountIn(calls, "av_read_frame")
            /\ CountIn(calls', "av_write_frame") = CountIn(calls, "av_write_frame")
         /\ pc = "read" /\ pc' = "read" =>
            /\ delivered' = delivered + 1
            /\ pkt' = UnrefPkt
            /\ committed' = committed
            /\ err' = "none" ]_vars

\* A read error after one commit: the run has ended, torn down, with failure
C11_Witness ==
  /\ pc = "done"
  /\ err = "read"
  /\ Len(committed) = 1
  /\ delivered = 1
  /\ input.state = "freed"
  /\ output.state = "freed"

\* C12 (open-phase failures): if vs_open_input fails the run ends at once: the
\* destination was never opened and nothing was read or written; if
\* vs_open_output fails nothing is read or written and the run ends with the
\* source session torn down; both report failure.
C12_OpenFailures ==
  /\ err = "open_input" =>
       /\ pc = "done"
       /\ ExitCode = 1
       /\ input.state = "null" /\ output.state = "null"
       /\ \A k \in 1 .. Len(calls) :
            calls[k] \in {"avformat_open_input", "avformat_close_input"}
  /\ err = "open_output" =>
       /\ pc \in {"destroy_input", "done"}
       /\ ExitCode = 1
       /\ output.state = "null"
       /\ CountCalls("av_read_frame") = 0
       /\ CountCalls("av_write_frame") = 0
       /\ pc = "done" =>
            /\ input.state = "freed"
            /\ CountCalls("avformat_close_input") = 1

\* vs_open_output failed at the header; the source has been closed
C12_Witness ==
  /\ pc = "done"
  /\ err = "open_output"
  /\ input.state = "freed"
  /\ calls[Len(calls)] = "avformat_close_input"
  /\ CountCalls("avformat_write_header") = 1

\* C13 (repair decision): a write takes the repair path exactly when last_dts
\* is set and the raw DTS is unset or, rescaled into the destination time
\* base, is <= last_dts; every other write commits the plain rescale of the
\* raw DTS and PTS.
C13_RepairDecision ==
  lastw.res # 0 =>
    LET raw == [ZeroPkt EXCEPT !.pts = lastw.raw_pts, !.dts = lastw.raw_dts]
        claimed == /\ lastw.prev # AV_NOPTS_VALUE
                   /\ \/ lastw.raw_dts = AV_NOPTS_VALUE
                      \/ av_rescale_q_rnd(lastw.raw_dts, in_tb, out_tb)
                           <= lastw.prev
    IN /\ lastw.fix <=> claimed
       /\ ~lastw.fix =>
            /\ lastw.dts = RescaleDts(raw, in_tb, out_tb)
            /\ lastw.pts = RescalePts(raw, in_tb, out_tb)

\* The DTS values committed when the units with raw DTS = PTS = raws[k] are
\* written in turn and av_write_frame accepts every one
RECURSIVE CommittedDts(_, _, _, _)
CommittedDts(raws, last_dts, itb, otb) ==
  IF raws = <<>> THEN <<>>
  ELSE LET q == Corrected(Unit(0, Head(raws), Head(raws)), last_dts, itb, otb)
       IN <<q.dts>> \o CommittedDts(Tail(raws), q.dts, itb, otb)

\* C14 (repair value): a write on the repair path commits the DTS last_dts + 1
\* in the destination time base, whatever the two time bases are; with equal
\* time bases the raw DTS sequence 1000, 2000, 500, unset, 2600 is committed
\* as 1000, 2000, 2001, 2002, 2600.  (Stated for the commits whose DTS is
\* above last_dts, the only ones a muxer with strict timestamps accepts.)
C14_RepairValue ==
  /\ lastw.res = 1 /\ lastw.fix /\ lastw.dts > lastw.prev =>
       lastw.dts = lastw.prev + 1
  /\ CommittedDts(<<1000, 2000, 500, AV_NOPTS_VALUE, 2600>>, AV_NOPTS_VALUE,
                  <<1, 1000>>, <<1, 1000>>)
       = <<1000, 2000, 2001, 2002, 2600>>

\* The scenario of C14 alone
C14_Scenario ==
  CommittedDts(<<1000, 2000, 500, AV_NOPTS_VALUE, 2600>>, AV_NOPTS_VALUE,
               <<1, 1000>>, <<1, 1000>>)
    = <<1000, 2000, 2001, 2002, 2600>>

\* The whole rule of C15: on the repair path a unit whose raw PTS and raw DTS
\* are set with PTS >= DTS is committed with the PTS max(rescaled raw PTS,
\* corrected DTS); every other repaired unit (raw PTS unset, raw PTS below the
\* raw DTS, raw DTS unset) is committed with the PTS equal to the corrected
\* DTS.
C15_PtsRepairRule ==
  lastw.res = 1 /\ lastw.fix =>
    IF /\ lastw.raw_pts # AV_NOPTS_VALUE
       /\ lastw.raw_dts # AV_NOPTS_VALUE
       /\ lastw.raw_pts >= lastw.raw_dts
    THEN lastw.pts = FFMAX(av_rescale_q_rnd(lastw.raw_pts, in_tb, out_tb),
                           lastw.dts)
    ELSE lastw.pts = lastw.dts

\* The first case of the rule alone (raw PTS >= raw DTS, both set)
C15_OrderedCase ==
  /\ lastw.res = 1 /\ lastw.fix
  /\ lastw.raw_pts # AV_NOPTS_VALUE
  /\ lastw.raw_dts # AV_NOPTS_VALUE
  /\ lastw.raw_pts >= lastw.raw_dts
  => lastw.pts = FFMAX(av_rescale_q_rnd(lastw.raw_pts, in_tb, out_tb),
                       lastw.dts)

\* C15 (PTS repair rule, raw PTS below raw DTS): a repaired unit whose raw PTS
\* and raw DTS are set with PTS < DTS is committed with the PTS equal to the
\* corrected DTS.
C15_PtsBelowDtsCase ==
  /\ lastw.res = 1 /\ lastw.fix
  /\ lastw.raw_pts # AV_NOPTS_VALUE
  /\ lastw.raw_dts # AV_NOPTS_VALUE
  /\ lastw.raw_pts < lastw.raw_dts
  => lastw.pts = lastw.dts

\* C16 (unset timestamps on the standard path): a write that needs no repair
\* commits an unset PTS as 0 and an unset DTS as 0; an unset DTS takes the
\* standard path only while last_dts is unset, which is before the first
\* commit, and once that packet is committed last_dts is 0 and no longer
\* the unset sentinel.
C16_UnsetOnStandardPath ==
  lastw.res # 0 /\ ~lastw.fix =>
    /\ lastw.raw_pts = AV_NOPTS_VALUE => lastw.pts = 0
    /\ lastw.raw_dts = AV_NOPTS_VALUE =>
         /\ lastw.dts = 0
         /\ lastw.prev = AV_NOPTS_VALUE
         /\ Len(committed) = (IF lastw.res = 1 THEN 1 ELSE 0)
         /\ lastw.res = 1 /\ output.state = "open" =>
              /\ output.last_dts = 0
              /\ output.last_dts # AV_NOPTS_VALUE

\* A first packet with both timestamps unset has been committed at 0
C16_Witness ==
  /\ lastw.res = 1
  /\ ~lastw.fix
  /\ lastw.raw_pts = AV_NOPTS_VALUE /\ lastw.pts = 0
  /\ lastw.raw_dts = AV_NOPTS_VALUE /\ lastw.dts = 0
  /\ output.state = "open"
  /\ output.last_dts = 0

\* C17 (unbounded budget): with a frame budget of 0 the loop is never left
\* because of the count of committed units: whenever the run is past the
\* loop, a read or a write has failed.
C17_UnboundedBudget ==
  /\ max_frames = 0
  /\ output.state # "null"
  /\ pc \in {"destroy_input", "destroy_output", "done"}
  =>
    /\ err \in {"read", "write"}
    /\ ExitCode = 1

\* Budget 0: every unit of the source was committed and the run ended only
\* when the next read failed
C17_Witness ==
  /\ max_frames = 0
  /\ pc = "done"
  /\ err = "read"
  /\ Len(committed) = MaxUnits
  /\ i = MaxUnits

\* The state of the run, from the position of main
Phase ==
  CASE pc = "done"        -> "Closed"
    [] err # "none"       -> "Failed"
    [] pc = "open_input"  -> "Idle"
    [] pc = "open_output" -> "SourceOpen"
    [] pc = "read" /\ CountCalls("av_read_frame") = 0 -> "BothOpen"
    [] OTHER              -> "Pumping"

\* The changes of state of a run; a main that returns at once on a failure
\* passes through Failed within the step.
PhaseOrder ==
  { <<"Idle", "SourceOpen">>, <<"SourceOpen", "BothOpen">>,
    <<"BothOpen", "Pumping">>, <<"Pumping", "Closed">>,
    <<"Idle", "Failed">>, <<"SourceOpen", "Failed">>, <<"BothOpen", "Failed">>,
    <<"Pumping", "Failed">>, <<"Failed", "Closed">> }

\* C18 (termination): every run ends in Closed with neither session left
\* open; the states follow one another only in the order Idle, SourceOpen,
\* BothOpen, Pumping, Closed, with Failed entered from a state before Closed
\* and followed only by Closed; no step is taken from Closed.
C18_Termination ==
  /\ <>(Phase = "Closed" /\ input.state # "open" /\ output.state # "open")
  /\ [](Phase = "Closed" => input.state # "open" /\ output.state # "open")
  /\ [][ /\ Phase # "Closed"
         /\ \/ Phase' = Phase
            \/ <<Phase, Phase'>> \in PhaseOrder
            \/ Phase = "Idle" /\ Phase' = "Closed" /\ err' = "open_input" ]_vars

\* A run with budget 2 has committed two units and ended with both sessions
\* released
C18_Witness ==
  /\ pc = "done"
  /\ err = "none"
  /\ max_frames = 2 /\ i = 2
  /\ input.state = "freed"
  /\ output.state = "freed"

\* C19 (unit lifecycle): no unit is in flight when a read is issued or when
\* the run has ended; a read that delivers a unit of another stream returns
\* with the unit released; a unit of the selected stream goes to exactly one
\* vs_write_packet call, which leaves it unreleased, and is then released by
\* the caller's av_packet_unref, after a successful write and after a failed
\* one alike; a unit is released nowhere else.
C19_UnitLifecycle ==
  /\ [](pc \in {"open_input", "open_output", "read", "done"} => ~pkt.held)
  /\ [](pc \in {"write", "unref"} => pkt.held)
  /\ [](pc \in {"destroy_input", "destroy_output"} =>
          (pkt.held <=> err = "write"))
  /\ [][ /\ pc' = "write" =>
            /\ pc = "read"
            /\ delivered' = delivered + 1
            /\ pkt'.held
         /\ pc = "write" =>
            /\ pkt'.held
            /\ pc' # "write"
            /\ CountIn(calls', "av_write_frame")
                 = CountIn(calls, "av_write_frame") + 1
         /\ pc = "read" /\ pc' = "read" => pkt' = UnrefPkt
         /\ pkt.held /\ ~pkt'.held => pc = "unref" ]_vars

\* A write failed after one commit; the run has ended and the rejected unit
\* has been released
C19_Witness ==
  /\ pc = "done"
  /\ err = "write"
  /\ lastw.res = -1
  /\ Len(committed) = 1
  /\ delivered >= 2
  /\ ~pkt.held

\* C20 (trailer only after a header): av_write_trailer is called only on a
\* destination whose file was opened and whose header was written; in
\* particular never before avio_open and avformat_write_header have been
\* called, on no failure path of vs_open_output.
C20_TrailerOnlyAfterHeader ==
  CountCalls("av_write_trailer") > 0 =>
    /\ CountCalls("avio_open") > 0
    /\ CountCalls("avformat_write_header") > 0

====
